---- MODULE Spec2Model ----
(***************************************************************************)
(* A model of frankenstein/radial_fitters.py: the design-matrix builder    *)
(* (FourierBesselFitter._build_matrices), the posterior solver             *)
(* (HankelRegressor) and the power-spectrum iteration (FrankFitter.fit).   *)
(*                                                                         *)
(* Numbers.  The program computes in floating point.  The model computes   *)
(* exactly: data are small integers, everything derived from them by       *)
(* + - * / is an exact rational <<numerator, denominator>>.  What cannot   *)
(* be computed exactly (log, exp, the sparse solve of the smoothed update) *)
(* is kept symbolic or drawn from a bounded set, and is said so where it   *)
(* happens.                                                                *)
(*                                                                         *)
(* The discrete Hankel transform is not part of the source files (the name *)
(* DiscreteHankelTransform is used at line 268 and defined nowhere); it is *)
(* modelled as a fixed basis of two collocation points.                    *)
(***************************************************************************)
EXTENDS Integers, Sequences, FiniteSets, TLC

VARIABLES
    entry,        \* which method was called
    pc,           \* position of the running call
    err,          \* the exception that ended the call, "none" otherwise
    _blocking,    \* FourierBesselFitter._blocking
    _block_size,  \* FourierBesselFitter._block_size
    _tol,         \* FrankFitter._tol, a rational
    _max_iter,    \* FrankFitter._max_iter
    q, V, weights,\* the arguments of fit
    traj,         \* the trial spectra the floating-point formulae of
                  \* FrankFitter.fit give on this data, in the order computed
    Nstep, w, start, end, Ndata, M, j,   \* locals of _build_matrices
    _M, _j, _H0,  \* FourierBesselFitter._M, ._j, ._H0
    arr,          \* the numpy arrays of trial spectra, by address
    pi, pi_old, count, fit,              \* locals of FrankFitter.fit
    _sol, _ps, _ps_cov,                  \* FrankFitter._sol, ._ps, ._ps_cov
    reg, rhs, xres,  \* a regressor built by a caller, a right-hand side, Dsolve's result
    chunks,       \* history: the index sets [start, end) the loop has visited
    naccum,       \* history: number of executions of `M += ...`
    nfactor,      \* history: number of factorizations (cho_factor or svd) attempted
    nbody,        \* history: number of executions of the main loop's body
    stop,         \* history: why the main loop ended: "tol", "cap" or "none"
    prev,         \* history: what an earlier fit of the same data left, and why it stopped
    ret,          \* what the last property or method called on a result returned
    log_q, _smooth,  \* np.log(self.q) and FrankFitter._smooth
    Tij,          \* what _build_smoothing_matrix returned
    ncov,         \* history: number of covariance matrices computed
    origin        \* history: the number of the fit call running, and of the
                  \* calls that set _sol, _ps and _ps_cov (0: never set)

cfgVars == <<_blocking, _block_size, _tol, _max_iter>>

argVars == <<q, V, weights, traj>>

bLocals == <<Nstep, w, start, end, Ndata, M, j>>

bFields == <<_M, _j, _H0>>

bHist == <<chunks, naccum>>

fLocals == <<arr, pi, pi_old, count, fit>>

fFields == <<_sol, _ps, _ps_cov>>

fHist == <<nfactor, nbody, stop, prev>>

rVars == <<reg, rhs, xres>>

sVars == <<log_q, _smooth, Tij>>

xVars == <<ret, sVars, ncov, origin>>

vars == <<entry, pc, err, cfgVars, argVars, bLocals, bFields, bHist,
          fLocals, fFields, fHist, rVars, xVars>>

(***************************************************************************)
(* Bounds of the model.                                                    *)
(***************************************************************************)
MaxData == 2        \* longest input array
MaxChunks == 4      \* most chunks a run of the accumulation loop is followed for
MaxBlock == 3       \* largest |block_size| tried

(***************************************************************************)
(* The Hankel basis (external to the source files).                        *)
(***************************************************************************)
qgrid == <<1, 2>>

size == Len(qgrid)

Idx == 1..size

\* One row of the coefficient matrix: the basis functions at frequency x.
Ycoef(x) == [i \in Idx |-> IF i = 1 THEN 1 ELSE x]

\* DHT.coefficients(qs): one row per frequency of qs.
coefficients(qs) == [k \in 1..Len(qs) |-> Ycoef(qs[k])]

(***************************************************************************)
(* numpy and Python primitives used by the builder.                        *)
(***************************************************************************)
RECURSIVE SumTo(_, _)
\* Sum of f[1..n].
SumTo(f, n) == IF n = 0 THEN 0 ELSE f[n] + SumTo(f, n - 1)

\* A Python slice bound: negative bounds count from the end, all are clipped.
PyClip(i, n) == IF i < 0 THEN (IF i + n < 0 THEN 0 ELSE i + n)
                ELSE (IF i > n THEN n ELSE i)

\* s[a:b] of Python.
PySlice(s, a, b) ==
    LET lo == PyClip(a, Len(s))
        hi == PyClip(b, Len(s))
    IN IF lo < hi THEN SubSeq(s, lo + 1, hi) ELSE <<>>

\* The 0-based indices that s[a:b] selects from an array of length n.
SliceIdx(n, a, b) ==
    LET lo == PyClip(a, n)
        hi == PyClip(b, n)
    IN IF lo < hi THEN lo..(hi - 1) ELSE {}

\* int(x / n): Python's int() truncates towards zero.
IntTrunc(x, n) == IF x >= 0 THEN x \div n ELSE -((-x) \div n)

\* numpy broadcasting of two 1-D lengths.
Broadcastable(a, b) == a = b \/ a = 1 \/ b = 1

BLen(a, b) == IF a = 1 THEN b ELSE a

BAt(s, k) == IF Len(s) = 1 THEN s[1] ELSE s[k]

ZeroMat == [a \in Idx |-> [b \in Idx |-> 0]]

ZeroVec == [a \in Idx |-> 0]

\* M = 0 and j = 0 of line 289 are Python scalars (nd = 0) until the first
\* `+=` of an array makes them arrays.
Scalar0Mat == [nd |-> 0, m |-> ZeroMat]

Scalar0Vec == [nd |-> 0, v |-> ZeroVec]

\* np.array(X.T*ws): X.T has shape (size, Len(X)), ws is 1-D.
wXT_of(X, ws) ==
    [i \in Idx |-> [k \in 1..BLen(Len(X), Len(ws)) |->
        X[IF Len(X) = 1 THEN 1 ELSE k][i] * BAt(ws, k)]]

\* np.dot(wXT, X), defined when the inner lengths agree.
dotM(wXT, X) ==
    [a \in Idx |-> [b \in Idx |->
        SumTo([k \in 1..Len(X) |-> wXT[a][k] * X[k][b]], Len(X))]]

\* np.dot(wXT, Vs), defined when the inner lengths agree.
dotJ(wXT, Vs) ==
    [a \in Idx |-> SumTo([k \in 1..Len(Vs) |-> wXT[a][k] * Vs[k]], Len(Vs))]

AddMat(A, B) == [a \in Idx |-> [b \in Idx |-> A[a][b] + B[a][b]]]

AddVec(x, y) == [a \in Idx |-> x[a] + y[a]]

\* Line 281 / 283: the chunk size.
Nstep_of(blocking, block_size, lenV) ==
    IF blocking THEN IntTrunc(block_size + size, size) ELSE lenV

\* Line 286: w = np.ones_like(V) * weights.  A scalar weight is a 0-d operand.
w_of(Vv, wts) ==
    IF wts.scalar THEN [k \in 1..Len(Vv) |-> wts.v[1]]
    ELSE [k \in 1..BLen(Len(Vv), Len(wts.v)) |-> BAt(wts.v, k)]

w_ok(Vv, wts) == wts.scalar \/ Broadcastable(Len(Vv), Len(wts.v))

\* Line 309: H0 = 0.5*sum(log(w/(2 pi)) - V*w*V).  The logarithm is kept
\* symbolic: `logs` is the array whose entries go through log(./(2 pi)),
\* `quad` is sum(V*w*V).
H0_of(Vv, ww) ==
    LET n == BLen(Len(Vv), Len(ww))
    IN [logs |-> ww,
        quad |-> SumTo([k \in 1..n |-> BAt(Vv, k) * BAt(ww, k) * BAt(Vv, k)], n)]

NoH0 == [logs |-> <<>>, quad |-> 0]

(***************************************************************************)
(* FourierBesselFitter._build_matrices, lines 273-309.                     *)
(***************************************************************************)
\* The next chunk starting one sample too late.
NextStart_skip(s, e, step) == e + 1

\* The next chunk bounds, lines 302-303.
NextStart(s, e, step) == e

NextEnd(s, e, step) == e + step

\* Lines 279-289: chunk size, weights array, loop variables.
build_begin ==
    /\ pc = "build"
    /\ Nstep' = Nstep_of(_blocking, _block_size, Len(V))
    /\ IF w_ok(V, weights)
       THEN /\ w' = w_of(V, weights)
            /\ start' = 0
            /\ end' = Nstep_of(_blocking, _block_size, Len(V))
            /\ Ndata' = Len(V)
            /\ M' = Scalar0Mat
            /\ j' = Scalar0Vec
            /\ pc' = "loop"
            /\ err' = "none"
       ELSE /\ pc' = "raised"
            /\ err' = "ValueError"
            /\ UNCHANGED <<w, start, end, Ndata, M, j>>
    /\ UNCHANGED <<xVars, entry, cfgVars, argVars, bFields, bHist, fLocals, fFields,
                   fHist, rVars>>

\* Lines 290-303: one pass of `while start < Ndata`.
build_chunk ==
    /\ pc = "loop"
    /\ start < Ndata
    /\ Len(chunks) < MaxChunks
    /\ LET qs == PySlice(q, start, end)
           ws == PySlice(w, start, end)
           Vs == PySlice(V, start, end)
           X == coefficients(qs)
           wXT == wXT_of(X, ws)
           mlen == BLen(Len(X), Len(ws))
       IN /\ chunks' = Append(chunks, SliceIdx(Ndata, start, end))
          /\ IF ~Broadcastable(Len(X), Len(ws))
             THEN \* line 297 raises
                  /\ pc' = "raised" /\ err' = "ValueError"
                  /\ UNCHANGED <<M, j, start, end, naccum>>
             ELSE IF mlen # Len(X)
             THEN \* line 299 raises
                  /\ pc' = "raised" /\ err' = "ValueError"
                  /\ UNCHANGED <<M, j, start, end, naccum>>
             ELSE IF mlen # Len(Vs)
             THEN \* line 300 raises, after line 299 has updated M
                  /\ pc' = "raised" /\ err' = "ValueError"
                  /\ M' = [nd |-> 2, m |-> AddMat(M.m, dotM(wXT, X))]
                  /\ naccum' = naccum + 1
                  /\ UNCHANGED <<j, start, end>>
             ELSE /\ M' = [nd |-> 2, m |-> AddMat(M.m, dotM(wXT, X))]
                  /\ j' = [nd |-> 1, v |-> AddVec(j.v, dotJ(wXT, Vs))]
                  /\ naccum' = naccum + 1
                  /\ start' = NextStart(start, end, Nstep)
                  /\ end' = NextEnd(start, end, Nstep)
                  /\ UNCHANGED <<pc, err>>
    /\ UNCHANGED <<xVars, entry, cfgVars, argVars, Nstep, w, Ndata, bFields, fLocals,
                   fFields, fHist, rVars>>

\* Lines 305-309: the loop has ended; store M, j and the normalization H0.
build_end ==
    /\ pc = "loop"
    /\ ~(start < Ndata)
    /\ _M' = M
    /\ _j' = j
    /\ _H0' = H0_of(V, w)
    /\ pc' = "built"
    /\ UNCHANGED <<xVars, entry, err, cfgVars, argVars, bLocals, bHist, fLocals,
                   fFields, fHist, rVars>>

(***************************************************************************)
(* Exact rationals <<numerator, denominator>>, denominator > 0, reduced.   *)
(***************************************************************************)
Abs(x) == IF x < 0 THEN -x ELSE x

RECURSIVE Gcd(_, _)
Gcd(a, b) == IF b = 0 THEN a ELSE Gcd(b, a % b)

Rat(n, d) ==
    LET g == Gcd(Abs(n), Abs(d))
    IN IF d < 0 THEN <<(-n) \div g, (-d) \div g>> ELSE <<n \div g, d \div g>>

RInt(n) == <<n, 1>>

RAdd(x, y) == Rat(x[1] * y[2] + y[1] * x[2], x[2] * y[2])

RSub(x, y) == Rat(x[1] * y[2] - y[1] * x[2], x[2] * y[2])

RMul(x, y) == Rat(x[1] * y[1], x[2] * y[2])

RDiv(x, y) == Rat(x[1] * y[2], x[2] * y[1])

RPos(x) == x[1] > 0

RZero == RInt(0)

RECURSIVE RSumTo(_, _)
RSumTo(f, n) == IF n = 0 THEN RZero ELSE RAdd(f[n], RSumTo(f, n - 1))

RMat(A) == [a \in Idx |-> [b \in Idx |-> RInt(A[a][b])]]

RVec(x) == [a \in Idx |-> RInt(x[a])]

RZeroMat == RMat(ZeroMat)

RZeroVec == RVec(ZeroVec)

RAddMat(A, B) == [a \in Idx |-> [b \in Idx |-> RAdd(A[a][b], B[a][b])]]

\* np.dot(A, x) for a matrix and a vector.
RMatVec(A, x) == [a \in Idx |-> RSumTo([k \in Idx |-> RMul(A[a][k], x[k])], size)]

RTranspose(A) == [a \in Idx |-> [b \in Idx |-> A[b][a]]]

RScaleMat(c, A) == [a \in Idx |-> [b \in Idx |-> RMul(c, A[a][b])]]

(***************************************************************************)
(* scipy.linalg on the two-point basis, in exact arithmetic.               *)
(***************************************************************************)
Det2(A) == RSub(RMul(A[1][1], A[2][2]), RMul(A[1][2], A[2][1]))

Adj2(A) == <<  <<A[2][2], RSub(RZero, A[1][2])>>,
               <<RSub(RZero, A[2][1]), A[1][1]>>  >>

\* cho_factor(A) reads the upper triangle and succeeds exactly when its
\* leading minors are positive; otherwise it raises LinAlgError.
cho_factor_ok(A) ==
    /\ RPos(A[1][1])
    /\ RPos(RSub(RMul(A[1][1], A[2][2]), RMul(A[1][2], A[1][2])))

\* cho_solve(c, b) for c = cho_factor(A): the solution of A x = b.
cho_solve(c, b) ==
    RMatVec(RScaleMat(RDiv(RInt(1), Det2(c.of)), Adj2(c.of)), b)

\* V.T diag(s1) U.T for U, s, V = svd(A) and s1 = where(s > 0, 1/s, 0): the
\* Moore-Penrose inverse of A.  For a 2x2 matrix: the inverse when the
\* determinant is not 0, A.T/|A|^2 when the rank is 1, and 0 for A = 0.
svd_pinv(A) ==
    LET fro == RSumTo([a \in Idx |->
                   RSumTo([b \in Idx |-> RMul(A[a][b], A[a][b])], size)], size)
    IN IF Det2(A) # RZero THEN RScaleMat(RDiv(RInt(1), Det2(A)), Adj2(A))
       ELSE IF fro = RZero THEN RZeroMat
       ELSE RScaleMat(RDiv(RInt(1), fro), RTranspose(A))

\* np.dot(V.T, np.multiply(np.dot(U.T, b), s1)), lines 111 and 133.
svd_solve(f, b) == RMatVec(svd_pinv(f.of), b)

(***************************************************************************)
(* HankelRegressor, lines 60-133.  Optional values are <<>> (None) or      *)
(* <<value>>.  _p holds the address of the array the caller passed (0 for  *)
(* None): the constructor keeps the reference, it does not copy.           *)
(***************************************************************************)
None == <<>>

Some(x) == <<x>>

\* Ykm = DHT.coefficients(): the coefficients at the basis's own grid.
Ykm == coefficients(qgrid)

\* The reciprocal of every entry that is not zero.
p1_of_nonzero(p) == [k \in Idx |-> IF p[k] # 0 THEN Rat(1, p[k]) ELSE RZero]

\* Line 69: p1 = np.where(p > 0, 1./p, 0).
p1_of(p) == [k \in Idx |-> IF p[k] > 0 THEN Rat(1, p[k]) ELSE RZero]

\* Line 70: Sinv = einsum('ji,j,jk->ik', Ykm, p1, Ykm).
Sinv_of(p) ==
    [a \in Idx |-> [b \in Idx |->
        RSumTo([k \in Idx |-> RMul(RInt(Ykm[k][a] * Ykm[k][b]), p1_of(p)[k])],
               size)]]

\* The precision matrix with the prior left out.
Dinv_no_prior(Mm, Sinv) == RMat(Mm.m)

\* Line 95: Dinv = self._M + Sinv, with Sinv = 0 when there is no prior.
Dinv_of(Mm, Sinv) ==
    IF Sinv = None THEN RMat(Mm.m) ELSE RAddMat(RMat(Mm.m), Sinv[1])

\* Dinv is a 0-d scalar when M is the scalar 0 of an empty data set and there
\* is no prior.
Dinv_nd(Mm, Sinv) == IF Sinv = None THEN Mm.nd ELSE 2

\* Lines 104-111: the except branch of _fit.
fit_svd(Dinv, jj) ==
    [_Dchol |-> None,
     _Dsvd |-> Some([of |-> Dinv]),
     _mu |-> svd_solve([of |-> Dinv], jj)]

\* Lines 98-101: the try branch of _fit.
fit_chol(Dinv, jj) ==
    [_Dchol |-> Some([of |-> Dinv]),
     _Dsvd |-> None,
     _mu |-> cho_solve([of |-> Dinv], jj)]

\* The fallback taken whether or not Cholesky succeeds.
fit_factor_always_svd(Dinv, jj) == fit_svd(Dinv, jj)

\* Lines 97-111: Cholesky first, the SVD when it raises LinAlgError.
fit_factor(Dinv, jj) ==
    IF cho_factor_ok(Dinv) THEN fit_chol(Dinv, jj) ELSE fit_svd(Dinv, jj)

\* The exception __init__ ends with, "none" when it returns.  A 0-d Dinv is
\* refused by scipy (ValueError); a 0-d j is refused by cho_solve, which
\* indexes its shape (IndexError).  Neither is a LinAlgError, so neither is
\* caught at line 103.
init_error(Mm, jj, Sinv) ==
    IF Dinv_nd(Mm, Sinv) = 0 THEN "ValueError"
    ELSE IF jj.nd = 0 /\ cho_factor_ok(Dinv_of(Mm, Sinv)) THEN "IndexError"
    ELSE "none"

\* HankelRegressor(DHT, M, j, p, noise_likelihood), lines 60-114, when it
\* returns: paddr is the address of p (0 for None), pval its value.
HankelRegressor(Mm, jj, paddr, pval, noise) ==
    LET Sinv == IF paddr = 0 THEN None ELSE Some(Sinv_of(pval))
        f == fit_factor(Dinv_of(Mm, Sinv), RVec(jj.v))
    IN [_M |-> Mm, _j |-> jj, _p |-> paddr, _Sinv |-> Sinv,
        _like_noise |-> noise,
        _Dchol |-> f._Dchol, _Dsvd |-> f._Dsvd, _mu |-> f._mu,
        _cov |-> None]

\* Dsolve(b), lines 129-133.
Dsolve(r, b) ==
    IF r._Dchol # None THEN cho_solve(r._Dchol[1], b)
    ELSE svd_solve(r._Dsvd[1], b)

\* np.eye(self.size).
Eye == [a \in Idx |-> [b \in Idx |-> IF a = b THEN 1 ELSE 0]]

\* Dsolve(B) for a 2-D right-hand side B: one solve per column.
DsolveMat(r, B) ==
    LET col(b) == Dsolve(r, RVec([k \in Idx |-> B[k][b]]))
    IN [a \in Idx |-> [b \in Idx |-> col(b)[a]]]

\* The property `covariance`, lines 211-215: the regressor after the access,
\* the value returned, and the number of covariance matrices computed.
covariance(r) ==
    IF r._cov = None
    THEN LET c == DsolveMat(r, Eye)
         IN [reg |-> [r EXCEPT !._cov = Some(c)], val |-> c, ncov |-> 1]
    ELSE [reg |-> r, val |-> r._cov[1], ncov |-> 0]

\* Ykm.T.
YkmT == [a \in Idx |-> [b \in Idx |-> Ykm[b][a]]]

\* The same product taken from the covariance matrix: D . Ykm.T.
Dsolve_Ykm_by_covariance(r) ==
    LET c == covariance(r)
    IN [reg |-> c.reg,
        val |-> [a \in Idx |-> [b \in Idx |->
                    RSumTo([k \in Idx |-> RMul(c.val[a][k], RInt(YkmT[k][b]))],
                           size)]],
        ncov |-> c.ncov]

\* fit.Dsolve(Ykm.T) of lines 479, 497 and 549: the regressor after the call,
\* the value, and the number of covariance matrices computed.
Dsolve_Ykm(r) == [reg |-> r, val |-> DsolveMat(r, YkmT), ncov |-> 0]

(***************************************************************************)
(* Trial power spectra.  Their values come from floating-point formulae    *)
(* with log, exp and a sparse solve (lines 472-473, 480, 504); the model   *)
(* takes them from `traj`, a sequence fixed with the data: traj[1] is the  *)
(* rescaled seed, traj[2] the unsmoothed update, traj[3 + count] the       *)
(* smoothed update of the loop pass that starts with `count`.              *)
(***************************************************************************)
MaxIter == 1        \* largest max_iter tried

NAddr == 5          \* array addresses available

PVals == {1, 2}

PS == [Idx -> PVals]

Ones == [k \in Idx |-> 1]

Addr == 1..NAddr

\* The smoothed update is a function of the current spectrum: equal spectra
\* have equal successors.
Trajs ==
    {t \in [1..(MaxIter + 3) -> PS] :
        \A a, b \in 2..(MaxIter + 2) : t[a] = t[b] => t[a + 1] = t[b + 1]}

EmptyHeap == [a \in Addr |-> None]

\* A new array gets the lowest free address.
Alloc(h) == CHOOSE a \in Addr : h[a] = None /\ \A b \in Addr : b < a => h[b] # None

\* Arrays no name refers to any more are freed.
GC(h, roots) == [a \in Addr |-> IF a \in roots THEN h[a] ELSE None]

RegAddr(r) == IF r = None THEN {} ELSE {r[1]._p} \ {0}

(***************************************************************************)
(* FrankFitter.fit, lines 438-521.                                         *)
(***************************************************************************)
\* The exception HankelRegressor(DHT, _M, _j, p) ends with for the array at
\* address a of heap h ("none" when it returns).
new_error(h, a) == init_error(_M, _j, Some(Sinv_of(h[a])))

\* cho_factor ran unless scipy refused its argument.
new_nfactor(e) == IF e = "ValueError" THEN 0 ELSE 1

\* The posterior solved against the seed's precision matrix in place of M.
fit_powerspectrum_on_Dinv(h, a) ==
    HankelRegressor([nd |-> 2,
                     m |-> [x \in Idx |-> [y \in Idx |->
                              _M.m[x][y] + Ykm[1][x] * Ykm[1][y]
                                         + Ykm[2][x] * Ykm[2][y]]]],
                    _j, a, h[a], _H0)

\* Line 599: fit_powerspectrum(p).
fit_powerspectrum(h, a) == HankelRegressor(_M, _j, a, h[a], _H0)

Max2(a, b) == IF a >= b THEN a ELSE b

\* The largest change against tol times the largest entry.
any_above_tol_maxnorm(p, pold, tol) ==
    Max2(Abs(p[1] - pold[1]), Abs(p[2] - pold[2])) * tol[2]
        > tol[1] * Max2(Abs(p[1]), Abs(p[2]))

\* Line 489: np.any(np.abs(pi-pi_old) > self._tol * np.abs(pi)); pi_old is the
\* scalar 0 (address 0) before the first pass.
any_above_tol(p, pold, tol) ==
    \E k \in Idx : Abs(p[k] - pold[k]) * tol[2] > tol[1] * Abs(p[k])

\* Line 490: count <= self._max_iter.
below_cap(c, max_iter) == c <= max_iter

old_value(h, a) == IF a = 0 THEN [k \in Idx |-> 0] ELSE h[a]

\* Lines 489-490: the loop condition.
loop_test == /\ any_above_tol(arr[pi], old_value(arr, pi_old), _tol)
             /\ below_cap(count, _max_iter)

\* The arrays the fitter's own fields refer to: results of an earlier fit.
Kept == RegAddr(_sol) \cup ({_ps} \ {0})

\* An exception leaves fit: its locals are gone.
fit_raise(e, k) ==
    /\ pc' = "raised"
    /\ err' = e
    /\ nfactor' = nfactor + k
    /\ pi' = 0 /\ pi_old' = 0 /\ count' = 0 /\ fit' = None
    /\ arr' = GC(arr, Kept)

\* Lines 459-470: smoothing matrix, Ykm, pi = ones, the first posterior.
fit_seed ==
    /\ pc = "built" /\ entry = "FrankFitter.fit"
    /\ LET a == Alloc(arr)
           h == [arr EXCEPT ![a] = Ones]
           e == new_error(h, a)
       IN IF e # "none"
          THEN fit_raise(e, new_nfactor(e))
          ELSE /\ arr' = h
               /\ pi' = a
               /\ fit' = Some(fit_powerspectrum(h, a))
               /\ nfactor' = nfactor + 1
               /\ pc' = "seeded"
               /\ UNCHANGED <<err, pi_old, count>>
    /\ UNCHANGED <<xVars, entry, cfgVars, argVars, bLocals, bFields, bHist, fFields,
                   nbody, stop, prev, rVars>>

\* Lines 472-473: pi[:] = ... ; pi[:] *= ... rescale the array in place.
fit_rescale ==
    /\ pc = "seeded"
    /\ arr' = [arr EXCEPT ![pi] = traj[1]]
    /\ pc' = "rescaled"
    /\ UNCHANGED <<xVars, entry, err, cfgVars, argVars, bLocals, bFields, bHist,
                   pi, pi_old, count, fit, fFields, fHist, rVars>>

\* Line 475: fit = HankelRegressor(self._DHT, self._M, self._j, pi).
fit_reseed ==
    /\ pc = "rescaled"
    /\ LET e == new_error(arr, pi)
       IN IF e # "none"
          THEN fit_raise(e, new_nfactor(e))
          ELSE /\ fit' = Some(HankelRegressor(_M, _j, pi, arr[pi], NoH0))
               /\ nfactor' = nfactor + 1
               /\ pc' = "reseeded"
               /\ UNCHANGED <<err, arr, pi, pi_old, count>>
    /\ UNCHANGED <<xVars, entry, cfgVars, argVars, bLocals, bFields, bHist, fFields,
                   nbody, stop, prev, rVars>>

\* Lines 478-488: the unsmoothed update, its posterior, count = 0, pi_old = 0.
fit_unsmoothed ==
    /\ pc = "reseeded"
    /\ LET a == Alloc(arr)
           h == [arr EXCEPT ![a] = traj[2]]
           e == new_error(h, a)
       IN IF e # "none"
          THEN fit_raise(e, new_nfactor(e))
          ELSE /\ pi' = a
               /\ fit' = Some(fit_powerspectrum(h, a))
               /\ arr' = GC(h, {a} \cup Kept)
               /\ count' = 0
               /\ pi_old' = 0
               /\ nfactor' = nfactor + 1
               /\ pc' = "iter"
               /\ UNCHANGED err
    /\ ncov' = ncov + Dsolve_Ykm(fit[1]).ncov
    /\ UNCHANGED <<ret, sVars, origin, entry, cfgVars, argVars, bLocals,
                   bFields, bHist, fFields, nbody, stop, prev, rVars>>

\* Lines 489-511: one pass of the main loop.
fit_body ==
    /\ pc = "iter"
    /\ loop_test
    /\ LET anew == Alloc(arr)
           h1 == [arr EXCEPT ![anew] = traj[3 + count]]
           aold == Alloc(h1)
           h2 == [h1 EXCEPT ![aold] = arr[pi]]
           e == new_error(h2, anew)
       IN IF e # "none"
          THEN fit_raise(e, new_nfactor(e)) /\ UNCHANGED nbody
          ELSE /\ pi_old' = aold
               /\ pi' = anew
               /\ fit' = Some(fit_powerspectrum(h2, anew))
               /\ arr' = GC(h2, {anew, aold} \cup Kept)
               /\ count' = count + 1
               /\ nbody' = nbody + 1
               /\ nfactor' = nfactor + 1
               /\ UNCHANGED <<pc, err>>
    /\ ncov' = ncov + Dsolve_Ykm(fit[1]).ncov
    /\ UNCHANGED <<ret, sVars, origin, entry, cfgVars, argVars, bLocals,
                   bFields, bHist, fFields, stop, prev, rVars>>

\* The value _ps_covariance(fit, Tij, rho) returns, lines 544-563: the inverse
\* of the Hessian at the posterior `fit`, kept symbolic (it takes logs).
ps_covariance(r) == [hess_at |-> r._mu, p |-> arr[r._p]]

\* Lines 515-521: keep the last posterior and spectrum, then the spectrum's
\* covariance, for which _ps_covariance calls Dsolve on the posterior kept.
\* cho_factor(hess) at line 560 raises LinAlgError when the Hessian is not
\* positive definite, after _sol and _ps have been set.
fit_finish ==
    /\ pc = "iter"
    /\ ~loop_test
    /\ _sol' = Some(Dsolve_Ykm(fit[1]).reg)
    /\ ncov' = ncov + Dsolve_Ykm(fit[1]).ncov
    /\ _ps' = pi
    /\ stop' = IF any_above_tol(arr[pi], old_value(arr, pi_old), _tol)
               THEN "cap" ELSE "tol"
    /\ \E hess_pd \in BOOLEAN :
          IF hess_pd
          THEN /\ _ps_cov' = Some(ps_covariance(fit[1]))
               /\ origin' = [origin EXCEPT !._sol = origin.call,
                                           !._ps = origin.call,
                                           !._ps_cov = origin.call]
               /\ pc' = "done"
               /\ err' = "none"
          ELSE /\ pc' = "raised"
               /\ err' = "LinAlgError"
               /\ origin' = [origin EXCEPT !._sol = origin.call,
                                           !._ps = origin.call]
               /\ UNCHANGED _ps_cov
    /\ arr' = GC(arr, {pi})
    /\ pi' = 0 /\ pi_old' = 0 /\ count' = 0 /\ fit' = None
    /\ UNCHANGED <<ret, sVars, entry, cfgVars, argVars, bLocals, bFields,
                   bHist, nfactor, nbody, prev, rVars>>

\* What a finished fit leaves on the fitter and in the regressor it returns.
ObsReg(r) == IF r = None THEN None
             ELSE Some([reg |-> r[1], p |-> arr[r[1]._p]])

Observable ==
    [_M |-> _M, _j |-> _j, _H0 |-> _H0, _sol |-> ObsReg(_sol),
     _ps |-> IF _ps = 0 THEN None ELSE arr[_ps], _ps_cov |-> _ps_cov]

(***************************************************************************)
(* FrankFitter._build_smoothing_matrix, lines 416-436, on a grid of any    *)
(* size.  Indices are 1-based here: column c is Python's column c - 1.     *)
(***************************************************************************)
\* Line 419: de = np.diff(log_q).
de_of(lq) == [c \in 1..(Len(lq) - 1) |-> RInt(lq[c + 1] - lq[c])]

\* Line 418: dc = (log_q[2:] - log_q[:-2]) / 2.
dc_of(lq) == [c \in 1..(Len(lq) - 2) |-> Rat(lq[c + 2] - lq[c], 2)]

\* Lines 421-424: the three rows of diagonals, zero where nothing is assigned.
Delta_data(lq) ==
    LET n == Len(lq)
        de == de_of(lq)
        dc == dc_of(lq)
    IN [k \in 1..3 |-> [c \in 1..n |->
          IF k = 1 /\ c <= n - 2
          THEN RDiv(RInt(1), RMul(dc[c], de[c]))
          ELSE IF k = 2 /\ c >= 2 /\ c <= n - 1
          THEN RSub(RZero,
                    RDiv(RAdd(RDiv(RInt(1), de[c]), RDiv(RInt(1), de[c - 1])),
                         dc[c - 1]))
          ELSE IF k = 3 /\ c >= 3
          THEN RDiv(RInt(1), RMul(dc[c - 2], de[c - 1]))
          ELSE RZero]]

\* Lines 426-427: dia_matrix((Delta, [-1, 0, 1])): row k of the data lies on
\* diagonal k - 2, its entry of column c at (c - offset, c).
Delta_of(lq) ==
    LET n == Len(lq)
        d == Delta_data(lq)
    IN [r \in 1..n |-> [c \in 1..n |->
          IF c - r = -1 THEN d[1][c]
          ELSE IF c = r THEN d[2][c]
          ELSE IF c - r = 1 THEN d[3][c]
          ELSE RZero]]

\* Lines 429-430: dce[1:-1] = dc, zero at both ends.
dce_of(lq) ==
    [c \in 1..Len(lq) |->
        IF c >= 2 /\ c <= Len(lq) - 1 THEN dc_of(lq)[c - 1] ELSE RZero]

\* Delta . dce . Delta, the first factor not transposed.
Tij_untransposed(lq) ==
    LET n == Len(lq)
        D == Delta_of(lq)
        e == dce_of(lq)
    IN [a \in 1..n |-> [b \in 1..n |->
          RSumTo([r \in 1..n |-> RMul(D[a][r], RMul(e[r], D[r][b]))], n)]]

\* Line 434: Tij = Delta.T.dot(dce.dot(Delta)).
Tij_of(lq) ==
    LET n == Len(lq)
        D == Delta_of(lq)
        e == dce_of(lq)
    IN [a \in 1..n |-> [b \in 1..n |->
          RSumTo([r \in 1..n |-> RMul(D[r][a], RMul(e[r], D[r][b]))], n)]]

\* Line 436: return Tij*self._smooth.
build_smoothing_matrix(lq, smooth) ==
    LET T == Tij_of(lq)
    IN [a \in 1..Len(lq) |-> [b \in 1..Len(lq) |-> RMul(T[a][b], RInt(smooth))]]

smoothing_call ==
    /\ pc = "smooth"
    /\ Tij' = build_smoothing_matrix(log_q, _smooth)
    /\ pc' = "smoothed"
    /\ UNCHANGED <<ret, log_q, _smooth, ncov, origin, entry, err, cfgVars,
                   argVars, bLocals, bFields, bHist, fLocals, fFields, fHist,
                   rVars>>

(***************************************************************************)
(* The call of a fit method: lines 329 and 457 both read                   *)
(*     self._build_matrices(q, V, w)                                       *)
(* and Python looks each name up in the method's locals, then in the       *)
(* module.  FrankFitter.fit(self, q, V, w=1) has a local w;                *)
(* FourierBesselFitter.fit(self, q, V, weights=1) has none.  The locals of *)
(* log_prior(self, p=None) are its parameters and the names it assigns     *)
(* (lines 602-634).                                                        *)
(***************************************************************************)
LocalNames(method) ==
    IF method = "FourierBesselFitter.fit" THEN {"self", "q", "V", "weights"}
    ELSE IF method = "FrankFitter.log_prior"
    THEN {"self", "p", "Tij", "xi", "like", "tau"}
    ELSE {"self", "q", "V", "w"}

\* Names bound at module level (lines 4-9, 12, 246, 360).
ModuleNames == {"division", "absolute_import", "print_function", "np", "scipy",
                "__all__", "HankelRegressor", "FourierBesselFitter",
                "FrankFitter"}

\* The names the call expression evaluates.
CallNames == {"self", "q", "V", "w"}

\* Line 329 (FourierBesselFitter.fit) or 457 (FrankFitter.fit).
call_build ==
    /\ pc = "call"
    /\ IF CallNames \subseteq (LocalNames(entry) \cup ModuleNames)
       THEN pc' = "build" /\ err' = "none"
       ELSE pc' = "raised" /\ err' = "NameError"
    /\ UNCHANGED <<xVars, entry, cfgVars, argVars, bLocals, bFields, bHist, fLocals,
                   fFields, fHist, rVars>>

(***************************************************************************)
(* A second fitter, configured with another tol and max_iter, fits the     *)
(* same data; `prev` keeps what the first fit left and why its loop ended. *)
(***************************************************************************)
Tols == {<<1, 4>>, <<1, 2>>}

fit_again ==
    /\ pc = "done"
    /\ prev = None
    /\ prev' = Some([obs |-> Observable, stop |-> stop])
    /\ _tol' \in Tols
    /\ _max_iter' \in 0..MaxIter
    /\ pc' = "call"
    /\ Nstep' = 0 /\ w' = <<>> /\ start' = 0 /\ end' = 0 /\ Ndata' = 0
    /\ M' = Scalar0Mat /\ j' = Scalar0Vec
    /\ _M' = Scalar0Mat /\ _j' = Scalar0Vec /\ _H0' = NoH0
    /\ arr' = EmptyHeap
    /\ _sol' = None /\ _ps' = 0 /\ _ps_cov' = None
    /\ chunks' = <<>> /\ naccum' = 0 /\ nfactor' = 0 /\ nbody' = 0
    /\ stop' = "none"
    /\ UNCHANGED <<xVars, entry, err, _blocking, _block_size, argVars, pi, pi_old,
                   count, fit, rVars>>

(***************************************************************************)
(* fit is called again on the same fitter, with the other data set.  The   *)
(* fields an earlier call assigned stay until a later call assigns them.   *)
(***************************************************************************)
MaxCalls == 2       \* most fit calls made on one fitter

ScalarWeight(c) == [scalar |-> TRUE, v |-> <<c>>]

ArrayWeight(a) == [scalar |-> FALSE, v |-> a]

\* The data sets the whole of FrankFitter.fit is followed on.
FitData ==
    {[q |-> <<1, 2>>, V |-> <<1, 2>>, weights |-> ScalarWeight(1)],
     [q |-> <<1, 1>>, V |-> <<2, 1>>, weights |-> ArrayWeight(<<1, 2>>)]}

OtherData(d) == d.q # q \/ d.V # V \/ d.weights # weights

fit_recall ==
    /\ entry = "FrankFitter.fit"
    /\ pc \in {"done", "raised"}
    /\ origin.call < MaxCalls
    /\ origin' = [origin EXCEPT !.call = @ + 1]
    /\ \E d \in {e \in FitData : OtherData(e)} :
          q' = d.q /\ V' = d.V /\ weights' = d.weights
    /\ traj' \in {[k \in 1..(MaxIter + 3) |-> p] : p \in PS}
    /\ pc' = "call" /\ err' = "none"
    /\ Nstep' = 0 /\ w' = <<>> /\ start' = 0 /\ end' = 0 /\ Ndata' = 0
    /\ M' = Scalar0Mat /\ j' = Scalar0Vec
    /\ chunks' = <<>> /\ naccum' = 0 /\ nfactor' = 0 /\ nbody' = 0
    /\ stop' = "none"
    /\ UNCHANGED <<ret, sVars, ncov, entry, cfgVars, bFields, fLocals,
                   fFields, prev, rVars>>

(***************************************************************************)
(* A caller of HankelRegressor: it builds one from M, j and an optional    *)
(* power spectrum, then solves against it.                                 *)
(***************************************************************************)
BVals == {-1, 0, 1}

\* reg = HankelRegressor(DHT, M, j, p), lines 60-114; p is the array at
\* address pi, or None when pi is 0.
reg_new ==
    /\ pc = "client"
    /\ LET Sinv == IF pi = 0 THEN None ELSE Some(Sinv_of(arr[pi]))
           e == init_error(_M, _j, Sinv)
       IN IF e # "none"
          THEN /\ pc' = "raised" /\ err' = e
               /\ nfactor' = nfactor + new_nfactor(e)
               /\ UNCHANGED reg
          ELSE /\ reg' = Some(HankelRegressor(_M, _j, pi,
                                   IF pi = 0 THEN Ones ELSE arr[pi], NoH0))
               /\ nfactor' = nfactor + 1
               /\ pc' = "constructed"
               /\ UNCHANGED err
    /\ UNCHANGED <<xVars, entry, cfgVars, argVars, bLocals, bFields, bHist,
                   fLocals, fFields, nbody, stop, prev, rhs, xres>>

\* xres = reg.Dsolve(b), lines 116-133.
reg_Dsolve ==
    /\ pc \in {"constructed", "solved"}
    /\ \E b \in [Idx -> BVals] :
          /\ rhs' = b
          /\ xres' = Dsolve(reg[1], RVec(b))
    /\ pc' = "solved"
    /\ UNCHANGED <<xVars, entry, err, cfgVars, argVars, bLocals, bFields, bHist,
                   fLocals, fFields, fHist, reg>>

\* The regressor a caller holds: the one it built, or the fitter's
\* MAP_solution (lines 639-642) once a fit has set it.
HoldsResult ==
    \/ entry = "HankelRegressor" /\ pc \in {"constructed", "solved"}
    \/ entry = "FrankFitter.fit" /\ pc \in {"done", "raised"} /\ _sol # None

Held == IF entry = "HankelRegressor" THEN reg[1] ELSE _sol[1]

\* ret = <held regressor>.covariance, lines 211-215.
covariance_get ==
    /\ HoldsResult
    /\ LET c == covariance(Held)
       IN /\ ret' = Some([of |-> "covariance", val |-> c.val])
          /\ ncov' = ncov + c.ncov
          /\ IF entry = "HankelRegressor"
             THEN reg' = Some(c.reg) /\ UNCHANGED _sol
             ELSE _sol' = Some(c.reg) /\ UNCHANGED reg
    /\ UNCHANGED <<sVars, origin, entry, pc, err, cfgVars, argVars, bLocals,
                   bFields, bHist, fLocals, _ps, _ps_cov, fHist, rhs, xres>>

\* What `self.<name>` finds on a HankelRegressor: the attributes __init__ and
\* _fit assign (lines 62-74, 98-114) and the names the class body defines
\* (lines 60-243).
InstanceAttrs == {"_DHT", "_M", "_j", "_p", "_Sinv", "_like_noise",
                  "_Dchol", "_Dsvd", "_mu", "_cov"}

ClassAttrs == {"__init__", "_fit", "Dsolve", "draw", "log_likelihood",
               "predict", "mean", "covariance", "power_spectrum",
               "r", "Rmax", "q", "Qmax", "size"}

\* The attributes log_likelihood() reads, I being None: lines 174-177, 190.
LikeReads(r) ==
    {"_j", "_mu", "_Sinv", "_like_noise"}
    \cup (IF r._Sinv # None THEN {"_Dsolve"} ELSE {})

\* 0.5 * np.sum(self._j * self._mu), line 174.
half_j_mu(r) ==
    RMul(Rat(1, 2),
         RSumTo([k \in Idx |-> RMul(RInt(r._j.v[k]), r._mu[k])], size))

\* ret = <held regressor>.log_likelihood(), lines 173-177 and 190.  The
\* logarithm of the determinant is kept as the matrix it is taken of.
log_likelihood_call ==
    /\ HoldsResult
    /\ IF LikeReads(Held) \subseteq (InstanceAttrs \cup ClassAttrs)
       THEN /\ ret' = Some([of |-> "log_likelihood",
                            val |-> [half_j_mu |-> half_j_mu(Held),
                                     half_logdet |->
                                        IF Held._Sinv = None THEN None
                                        ELSE Some(DsolveMat(Held, Held._Sinv[1])),
                                     noise |-> Held._like_noise]])
            /\ UNCHANGED <<pc, err>>
       ELSE /\ pc' = "raised"
            /\ err' = "AttributeError"
            /\ UNCHANGED ret
    /\ UNCHANGED <<sVars, ncov, origin, entry, cfgVars, argVars, bLocals,
                   bFields, bHist, fLocals, fFields, fHist, rVars>>

\* The names the body of log_prior evaluates, lines 621-636.
PriorNames == {"self", "p", "Tij", "np", "pi", "xi", "like", "tau"}

\* ret = fitter.log_prior(p), lines 602-636, on a fitter before or after a
\* fit; arg is None or a positive trial spectrum.  self._ps exists only once
\* a fit has assigned it (line 518).  The value is kept as the spectrum it is
\* evaluated at.
log_prior_call ==
    /\ entry = "FrankFitter.fit"
    /\ pc \in {"call", "done"}
    /\ \E arg \in {None} \cup {Some(p) : p \in PS} :
          IF arg = None /\ _ps = 0
          THEN pc' = "raised" /\ err' = "AttributeError" /\ UNCHANGED ret
          ELSE IF ~(PriorNames \subseteq
                       (LocalNames("FrankFitter.log_prior") \cup ModuleNames))
          THEN pc' = "raised" /\ err' = "NameError" /\ UNCHANGED ret
          ELSE /\ ret' = Some([of |-> "log_prior",
                               val |-> IF arg = None THEN arr[_ps] ELSE arg[1]])
               /\ UNCHANGED <<pc, err>>
    /\ UNCHANGED <<sVars, ncov, origin, entry, cfgVars, argVars, bLocals,
                   bFields, bHist, fLocals, fFields, fHist, rVars>>

(***************************************************************************)
(* Inputs and specifications.                                              *)
(***************************************************************************)
QVals == {1, 2}

VVals == {1, 2}

WVals == {-1, 0, 1, 2}

SeqsUpTo(S, n) == UNION {[1..k -> S] : k \in 0..n}

WeightArgs ==
    {ScalarWeight(c) : c \in WVals}
    \cup {ArrayWeight(a) : a \in SeqsUpTo(WVals, MaxData)}

BlockSizes == (-(2 * size + 1))..MaxBlock

\* No smoothing matrix is looked at.
NoGrid == log_q = <<>> /\ _smooth = 0 /\ Tij = <<>>

\* Everything a call has not touched yet.
Fresh ==
    /\ NoGrid
    /\ err = "none"
    /\ Nstep = 0 /\ w = <<>> /\ start = 0 /\ end = 0 /\ Ndata = 0
    /\ M = Scalar0Mat /\ j = Scalar0Vec
    /\ pi_old = 0 /\ count = 0 /\ fit = None
    /\ _sol = None /\ _ps = 0 /\ _ps_cov = None
    /\ reg = None /\ rhs = ZeroVec /\ xres = RZeroVec
    /\ chunks = <<>> /\ naccum = 0 /\ nfactor = 0 /\ nbody = 0
    /\ stop = "none" /\ prev = None
    /\ ret = None /\ ncov = 0
    /\ origin = [call |-> 1, _sol |-> 0, _ps |-> 0, _ps_cov |-> 0]

DefaultTraj == [k \in 1..(MaxIter + 3) |-> Ones]

\* FrankFitter.fit on any arrays of up to MaxData entries, followed up to the
\* first posterior.
InitBuild ==
    /\ entry = "FrankFitter.fit"
    /\ pc = "call"
    /\ _blocking \in BOOLEAN
    /\ _block_size \in BlockSizes
    /\ _tol = <<1, 2>> /\ _max_iter = 0
    /\ q \in SeqsUpTo(QVals, MaxData)
    /\ V \in SeqsUpTo(VVals, MaxData)
    /\ weights \in WeightArgs
    /\ traj = DefaultTraj
    /\ _M = Scalar0Mat /\ _j = Scalar0Vec /\ _H0 = NoH0
    /\ arr = EmptyHeap /\ pi = 0
    /\ Fresh

NextBuild == call_build \/ build_begin \/ build_chunk \/ build_end \/ fit_seed

SpecBuild == InitBuild /\ [][NextBuild]_vars

\* FourierBesselFitter.fit on the same inputs.
InitFB ==
    /\ entry = "FourierBesselFitter.fit"
    /\ pc = "call"
    /\ _blocking \in BOOLEAN
    /\ _block_size \in BlockSizes
    /\ _tol = <<1, 2>> /\ _max_iter = 0
    /\ q \in SeqsUpTo(QVals, MaxData)
    /\ V \in SeqsUpTo(VVals, MaxData)
    /\ weights \in WeightArgs
    /\ traj = DefaultTraj
    /\ _M = Scalar0Mat /\ _j = Scalar0Vec /\ _H0 = NoH0
    /\ arr = EmptyHeap /\ pi = 0
    /\ Fresh

NextFB == call_build

SpecFB == InitFB /\ [][NextFB]_vars

InitFit ==
    /\ entry = "FrankFitter.fit"
    /\ pc = "call"
    /\ _blocking = TRUE
    /\ _block_size = 0
    /\ _tol \in Tols
    /\ _max_iter \in 0..MaxIter
    /\ \E d \in FitData : q = d.q /\ V = d.V /\ weights = d.weights
    /\ traj \in Trajs
    /\ _M = Scalar0Mat /\ _j = Scalar0Vec /\ _H0 = NoH0
    /\ arr = EmptyHeap /\ pi = 0
    /\ Fresh

NextFit ==
    \/ call_build \/ build_begin \/ build_chunk \/ build_end
    \/ fit_seed \/ fit_rescale \/ fit_reseed \/ fit_unsmoothed
    \/ fit_body \/ fit_finish

SpecFit == InitFit /\ [][NextFit]_vars

NextPair == NextFit \/ fit_again

SpecPair == InitFit /\ [][NextPair]_vars

\* HankelRegressor on any symmetric M and any j with small entries, without
\* a prior and with each power spectrum of PS.
MVals == -1..2

JVals == 0..2

SymMats == {<< <<a, b>>, <<b, c>> >> : a \in MVals, b \in MVals, c \in MVals}

InitReg ==
    /\ entry = "HankelRegressor"
    /\ pc = "client"
    /\ _blocking = TRUE /\ _block_size = 0
    /\ _tol = <<1, 2>> /\ _max_iter = 0
    /\ q = <<>> /\ V = <<>> /\ weights = ScalarWeight(1)
    /\ traj = DefaultTraj
    /\ \E m \in SymMats : _M = [nd |-> 2, m |-> m]
    /\ \E v \in [Idx -> JVals] : _j = [nd |-> 1, v |-> v]
    /\ _H0 = NoH0
    /\ \/ pi = 0 /\ arr = EmptyHeap
       \/ pi = 1 /\ \E p \in PS : arr = [EmptyHeap EXCEPT ![1] = p]
    /\ Fresh

NextReg == reg_new \/ reg_Dsolve

SpecReg == InitReg /\ [][NextReg]_vars

\* HankelRegressor with power spectra that have zero and negative entries.
PAny == [Idx -> -1..2]

InitPrior ==
    /\ entry = "HankelRegressor"
    /\ pc = "client"
    /\ _blocking = TRUE /\ _block_size = 0
    /\ _tol = <<1, 2>> /\ _max_iter = 0
    /\ q = <<>> /\ V = <<>> /\ weights = ScalarWeight(1)
    /\ traj = DefaultTraj
    /\ \E m \in SymMats : _M = [nd |-> 2, m |-> m]
    /\ \E v \in [Idx -> 0..1] : _j = [nd |-> 1, v |-> v]
    /\ _H0 = NoH0
    /\ pi = 1 /\ \E p \in PAny : arr = [EmptyHeap EXCEPT ![1] = p]
    /\ Fresh

SpecPrior == InitPrior /\ [][NextReg]_vars

\* A caller that also asks for the marginal likelihood.
NextLike == NextReg \/ log_likelihood_call

SpecLike == InitReg /\ [][NextLike]_vars

\* A fit, and a caller that evaluates the prior before or after it.
NextLogPrior == NextFit \/ log_prior_call

SpecLogPrior == InitFit /\ [][NextLogPrior]_vars

\* Up to MaxCalls fit calls on one fitter.
NextSeq == NextFit \/ fit_recall

SpecSeq == InitFit /\ [][NextSeq]_vars

\* _build_smoothing_matrix on every increasing grid of logarithms of 2 to
\* MaxGrid points out of LogVals, for each smoothing weight.
MaxGrid == 4        \* largest grid the smoothing matrix is built on

LogVals == 0..5

SmoothVals == 0..2

InitSmooth ==
    /\ entry = "FrankFitter._build_smoothing_matrix"
    /\ pc = "smooth"
    /\ log_q \in {g \in UNION {[1..n -> LogVals] : n \in 2..MaxGrid} :
                     \A c \in 1..(Len(g) - 1) : g[c] < g[c + 1]}
    /\ _smooth \in SmoothVals
    /\ Tij = <<>>
    /\ _blocking = TRUE /\ _block_size = 0
    /\ _tol = <<1, 2>> /\ _max_iter = 0
    /\ q = <<>> /\ V = <<>> /\ weights = ScalarWeight(1)
    /\ traj = DefaultTraj
    /\ _M = Scalar0Mat /\ _j = Scalar0Vec /\ _H0 = NoH0
    /\ arr = EmptyHeap /\ pi = 0
    /\ err = "none"
    /\ Nstep = 0 /\ w = <<>> /\ start = 0 /\ end = 0 /\ Ndata = 0
    /\ M = Scalar0Mat /\ j = Scalar0Vec
    /\ pi_old = 0 /\ count = 0 /\ fit = None
    /\ _sol = None /\ _ps = 0 /\ _ps_cov = None
    /\ reg = None /\ rhs = ZeroVec /\ xres = RZeroVec
    /\ chunks = <<>> /\ naccum = 0 /\ nfactor = 0 /\ nbody = 0
    /\ stop = "none" /\ prev = None
    /\ ret = None /\ ncov = 0
    /\ origin = [call |-> 1, _sol |-> 0, _ps |-> 0, _ps_cov |-> 0]

NextSmooth == smoothing_call

SpecSmooth == InitSmooth /\ [][NextSmooth]_vars

\* Both kinds of caller, each reading the covariance of the regressor it holds
\* any number of times.
InitCov == InitFit \/ InitReg

NextCov == NextFit \/ NextReg \/ covariance_get

SpecCov == InitCov /\ [][NextCov]_vars

(***************************************************************************)
(* Properties of the design-matrix builder.                                *)
(***************************************************************************)
\* q, V and the weights describe the same samples.
EqualLengths ==
    /\ Len(q) = Len(V)
    /\ weights.scalar \/ Len(weights.v) = Len(V)

\* What the loop computes when all data are one chunk (blocking disabled).
Unchunked_M ==
    IF Len(V) = 0 THEN Scalar0Mat
    ELSE [nd |-> 2,
          m |-> dotM(wXT_of(coefficients(q), w_of(V, weights)), coefficients(q))]

Unchunked_j ==
    IF Len(V) = 0 THEN Scalar0Vec
    ELSE [nd |-> 1, v |-> dotJ(wXT_of(coefficients(q), w_of(V, weights)), V)]

\* C1: for data of equal lengths and a positive chunk size, the blocked build
\* never raises and ends with the M, j and H0 of the one-chunk build, and the
\* chunks it visited hold every sample index 0..Ndata-1 exactly once.
C1_ChunkedEqualsUnchunked ==
    (_blocking /\ EqualLengths /\ pc \notin {"call", "build"} /\ Nstep > 0) =>
        /\ ~(pc = "raised" /\ err = "ValueError")
        /\ pc = "built" =>
              /\ _M = Unchunked_M
              /\ _j = Unchunked_j
              /\ _H0 = H0_of(V, w_of(V, weights))
              /\ \A i \in 0..(Len(V) - 1) :
                    Cardinality({k \in 1..Len(chunks) : i \in chunks[k]}) = 1
              /\ \A k \in 1..Len(chunks) : chunks[k] \subseteq 0..(Len(V) - 1)

\* A blocked build of two samples in two chunks has finished.
C1_Witness ==
    /\ pc = "built" /\ _blocking /\ EqualLengths
    /\ Len(V) = 2 /\ Len(chunks) = 2

\* C2: a blocked build of non-empty data whose chunk size is not positive is
\* stopped by an error before the accumulation loop: the loop makes no pass
\* with such a step and the build does not complete.
C2_DegenerateChunkRejected ==
    (_blocking /\ Len(V) > 0 /\ pc \notin {"call", "build"} /\ Nstep <= 0) =>
        (chunks = <<>> /\ pc # "built")

\* Inputs the fit is documented to accept.
ValidLengths == EqualLengths /\ Len(V) > 0

\* C6: inputs of unequal or zero length are rejected before anything is
\* accumulated or factorized and never pass the builder; a scalar weight
\* becomes that weight for every sample.
C6_LengthsValidated ==
    /\ ~ValidLengths =>
          (naccum = 0 /\ nfactor = 0 /\ pc \notin {"built", "seeded"})
    /\ (weights.scalar /\ pc = "loop") =>
          w = [k \in 1..Len(V) |-> weights.v[1]]

\* C7: a fit of equal-length, non-empty input with a weight that is not
\* positive accumulates nothing, factorizes nothing and never passes the
\* builder.
C7_WeightsValidated ==
    (ValidLengths /\ \E k \in 1..Len(weights.v) : weights.v[k] <= 0) =>
        (naccum = 0 /\ nfactor = 0 /\ pc \notin {"built", "seeded"})

(***************************************************************************)
(* Properties of the posterior solver.                                     *)
(***************************************************************************)
\* The precision matrix of the caller's M and p.
TheDinv ==
    IF pi = 0 THEN RMat(_M.m) ELSE RAddMat(RMat(_M.m), Sinv_of(arr[pi]))

\* C8: construction does not fail on a Dinv that is not positive definite;
\* exactly one of _Dchol and _Dsvd is set, _Dchol exactly when Cholesky
\* succeeds on Dinv; the cached factorization is that of Dinv, it is the only
\* one ever made, every Dsolve answers from it, and the mean is Dsolve(j).
C8_OneCachedFactorization ==
    (pc \in {"constructed", "solved"}) =>
        /\ err = "none"
        /\ reg # None
        /\ (reg[1]._Dchol = None) # (reg[1]._Dsvd = None)
        /\ (reg[1]._Dchol # None) <=> cho_factor_ok(TheDinv)
        /\ reg[1]._Dchol # None => reg[1]._Dchol[1].of = TheDinv
        /\ reg[1]._Dsvd # None => reg[1]._Dsvd[1].of = TheDinv
        /\ reg[1]._mu = Dsolve(reg[1], RVec(_j.v))
        /\ nfactor = 1
        /\ pc = "solved" =>
              xres = IF cho_factor_ok(TheDinv)
                     THEN cho_solve([of |-> TheDinv], RVec(rhs))
                     ELSE svd_solve([of |-> TheDinv], RVec(rhs))

\* A regressor on the SVD path has answered a Dsolve.
C8_Witness ==
    /\ pc = "solved"
    /\ reg[1]._Dsvd # None
    /\ ~cho_factor_ok(TheDinv)

\* b is in the range (column space) of the 2x2 matrix A.
InRange(A, b) ==
    \/ Det2(A) # RZero
    \/ /\ \A c \in Idx : RMul(A[1][c], b[2]) = RMul(A[2][c], b[1])
       /\ A = RZeroMat => b = RZeroVec

\* M is positive semi-definite, as every M = H^T w H with weights >= 0 is.
ValidM ==
    /\ _M.m[1][1] >= 0 /\ _M.m[2][2] >= 0
    /\ _M.m[1][1] * _M.m[2][2] - _M.m[1][2] * _M.m[2][1] >= 0

C10_LeastSquaresFitReturns ==
    (entry = "FourierBesselFitter.fit" /\ ValidLengths) => pc # "raised"

(***************************************************************************)
(* Properties of the power-spectrum iteration.                             *)
(***************************************************************************)
\* C3: the loop body runs at most max_iter times.
C3_BodyAtMostMaxIter == nbody <= _max_iter

\* C4: a fit whose loop stopped at the cap with the tolerance unmet leaves
\* something different from a fit whose loop stopped on the tolerance.
C4_NonConvergenceFlagged ==
    (pc = "done" /\ prev # None /\ prev[1].stop # stop) =>
        prev[1].obs # Observable

\* Every mode's change is within tol times that mode's own new value.
EveryModeWithinTol ==
    \A k \in Idx :
        Abs(arr[pi][k] - arr[pi_old][k]) * _tol[2] <= _tol[1] * Abs(arr[pi][k])

\* The largest change is within tol times the largest new value.
MaxNormWithinTol ==
    \A k \in Idx : \E m \in Idx :
        Abs(arr[pi][k] - arr[pi_old][k]) * _tol[2] <= _tol[1] * Abs(arr[pi][m])

AfterStepBelowCap == pc = "iter" /\ count >= 1 /\ count <= _max_iter

\* C5 as stated: below the cap the loop stops after a step exactly when the
\* largest change is within tol times the largest entry of the new spectrum.
C5_StopsOnMaxNorm ==
    [][AfterStepBelowCap =>
          /\ (stop' # "none") <=> MaxNormWithinTol
          /\ (nbody' = nbody + 1) <=> ~MaxNormWithinTol]_vars

\* C5 as amended: below the cap the loop stops after a step exactly when
\* every mode changed by at most tol times its own new value.
C5_StopsWhenEveryModeWithinTol ==
    [][AfterStepBelowCap =>
          /\ (stop' # "none") <=> EveryModeWithinTol
          /\ (nbody' = nbody + 1) <=> ~EveryModeWithinTol]_vars

\* Below the cap, after a step whose largest change is within tol of the
\* largest entry while one mode changed by more than tol of its own value.
C5_Witness ==
    /\ AfterStepBelowCap
    /\ MaxNormWithinTol
    /\ ~EveryModeWithinTol

(***************************************************************************)
(* Properties of the results a caller holds.                               *)
(***************************************************************************)
\* Every regressor there is: the caller's, the loop's and the one retained.
Regressors == {r \in {reg, fit, _sol} : r # None}

FitRunning == entry = "FrankFitter.fit" /\ pc \notin {"done", "raised"}

\* C11: a regressor has no covariance until `covariance` is read; the first
\* read computes Dsolve(Identity) and keeps it, later reads return what was
\* kept and compute nothing; while FrankFitter.fit runs no covariance is
\* computed and every regressor of the fit has _cov unset.
C11_CovarianceLazyAndCached ==
    /\ ncov <= 1
    /\ ncov = 0 => \A r \in Regressors : r[1]._cov = None
    /\ \A r \in Regressors :
          r[1]._cov # None => r[1]._cov[1] = DsolveMat(r[1], Eye) /\ ncov = 1
    /\ (ret # None /\ ret[1].of = "covariance" /\ HoldsResult) =>
          /\ ret[1].val = DsolveMat(Held, Eye)
          /\ Held._cov = Some(ret[1].val)
    /\ FitRunning => ncov = 0

\* The covariance of the solution of a fit whose loop ran has been read.
C11_Witness ==
    /\ entry = "FrankFitter.fit" /\ pc = "done" /\ nbody >= 1
    /\ ret # None /\ ncov = 1
    /\ _sol[1]._cov # None

\* p with its negative entries replaced by zero.
NegativeAsZero(p) == [k \in Idx |-> IF p[k] < 0 THEN 0 ELSE p[k]]

\* C12: the prior precision of mode k is 1/p[k] where p[k] > 0 and 0
\* elsewhere, so a regressor built from p has the Sinv, the factorization and
\* the mean of the regressor built from p with its negative entries set to 0.
C12_NegativeModeIsZeroMode ==
    (entry = "HankelRegressor" /\ pi # 0 /\ reg # None) =>
        LET p == arr[pi]
            prec == [k \in Idx |-> IF p[k] > 0 THEN Rat(1, p[k]) ELSE RZero]
            zeroed == HankelRegressor(_M, _j, pi, NegativeAsZero(p), NoH0)
        IN /\ reg[1]._Sinv =
                 Some([a \in Idx |-> [b \in Idx |->
                     RSumTo([k \in Idx |->
                         RMul(RInt(Ykm[k][a] * Ykm[k][b]), prec[k])], size)]])
           /\ reg[1]._Sinv = zeroed._Sinv
           /\ reg[1]._Dchol = zeroed._Dchol
           /\ reg[1]._Dsvd = zeroed._Dsvd
           /\ reg[1]._mu = zeroed._mu

\* A regressor has been built from a spectrum with a negative and a positive
\* entry.
C12_Witness ==
    /\ entry = "HankelRegressor" /\ pi # 0 /\ reg # None
    /\ \E k \in Idx : arr[pi][k] < 0
    /\ \E k \in Idx : arr[pi][k] > 0

\* C13: log_likelihood() ends in no error, with or without a prior, and
\* returns 0.5 j.mean + noise_likelihood, plus 0.5 logdet(Dsolve(Sinv)) when
\* there is a prior.
C13_MarginalLikelihoodReturns ==
    (entry = "HankelRegressor" /\ reg # None) =>
        /\ err # "AttributeError"
        /\ (ret # None /\ ret[1].of = "log_likelihood") =>
              /\ ret[1].val.half_j_mu = half_j_mu(reg[1])
              /\ ret[1].val.noise = reg[1]._like_noise
              /\ ret[1].val.half_logdet =
                    IF reg[1]._Sinv = None THEN None
                    ELSE Some(DsolveMat(reg[1], reg[1]._Sinv[1]))

\* C14: log_prior(p) for a positive trial spectrum, and log_prior() after a
\* fit, return the prior evaluated at p, or at the MAP spectrum; they do not
\* end in an error.
C14_LogPriorReturns ==
    entry = "FrankFitter.fit" =>
        /\ err # "NameError"
        /\ (ret # None /\ ret[1].of = "log_prior") => ret[1].val \in PS

\* C15: between fit calls, MAP_solution, MAP_spectrum and
\* MAP_spectrum_covariance were all set by the same call, and the spectrum
\* of MAP_solution is MAP_spectrum.
C15_ResultsFromOneFit ==
    (pc \in {"done", "raised"} /\ _sol # None /\ _ps_cov # None) =>
        /\ origin._sol = origin._ps
        /\ origin._ps = origin._ps_cov
        /\ _sol[1]._p = _ps

(***************************************************************************)
(* Properties of the smoothing matrix.                                     *)
(***************************************************************************)
GridIdx == 1..Len(log_q)

Dist(a, b) == IF a >= b THEN a - b ELSE b - a

Symmetric(T) == \A a, b \in GridIdx : T[a][b] = T[b][a]

C17_SpectrumIsTheOneUsed ==
    \A r \in Regressors :
        IF r[1]._p = 0 THEN r[1]._Sinv = None
        ELSE r[1]._Sinv = Some(Sinv_of(arr[r[1]._p]))

\* The sufficient statistics of the data of this call.
StatsOfData ==
    /\ _M = Unchunked_M
    /\ _j = Unchunked_j
    /\ _H0 = H0_of(V, w_of(V, weights))

BuildOver == entry = "FrankFitter.fit" /\ pc \notin {"call", "build", "loop"}

\* C18: once _build_matrices has returned, M, j and H0 are those of the data
\* and no step of the fit changes them; the accumulation has run once; every
\* posterior of the fit holds that M and j.
C18_StatisticsBuiltOnce ==
    [][BuildOver =>
          /\ StatsOfData
          /\ UNCHANGED <<_M, _j, _H0, naccum, chunks>>
          /\ \A r \in {fit, _sol, fit', _sol'} :
                r # None => r[1]._M = _M /\ r[1]._j = _j]_vars

\* A fit whose loop ran has finished on statistics built from two samples.
C18_Witness ==
    /\ entry = "FrankFitter.fit" /\ pc = "done" /\ nbody >= 1
    /\ _M.nd = 2 /\ naccum >= 1
    /\ _sol # None

====
